---- MODULE Spec2Model ----
(***************************************************************************)
(* A model of obsidian-watcher (src/main.py): the daily-note mutation      *)
(* add_link_under_inbox, the daily-note lifecycle ensure_daily_note, the   *)
(* write paths (_atomic_write and Path.write_text) and the event handler   *)
(* NewFileHandler._maybe_add.                                              *)
(*                                                                         *)
(* Text is modelled character by character: a Python str is a sequence of  *)
(* one-character strings, a list of lines is a sequence of such sequences. *)
(* Line indices keep Python's 0-based, half-open convention, so the local  *)
(* variables of add_link_under_inbox carry the values they have in the     *)
(* source; At(lines, i) is lines[i].                                       *)
(***************************************************************************)
EXTENDS Integers, Sequences, FiniteSets, TLC

(***************************************************************************)
(* Python str primitives                                                   *)
(***************************************************************************)

\* str.strip()/lstrip()/rstrip() without argument strip whitespace.
Whitespace == {" ", "\n", "\t"}

Min(S) == CHOOSE x \in S : \A y \in S : x <= y

Max(S) == CHOOSE x \in S : \A y \in S : x >= y

\* Op applied to the value of e, which is evaluated once.
With(e, Op(_)) == CHOOSE r \in {Op(v) : v \in {e}} : TRUE

\* lines[i] with Python's 0-based index.
At(lines, i) == lines[i + 1]

\* list.insert(i, x) for 0 <= i <= len(list).
ListInsert(lines, i, x) == SubSeq(lines, 1, i) \o <<x>> \o SubSeq(lines, i + 1, Len(lines))

lstrip(s) ==
  LET keep == {i \in 1..Len(s) : s[i] \notin Whitespace}
  IN  IF keep = {} THEN <<>> ELSE SubSeq(s, Min(keep), Len(s))

rstrip(s) ==
  LET keep == {i \in 1..Len(s) : s[i] \notin Whitespace}
  IN  IF keep = {} THEN <<>> ELSE SubSeq(s, 1, Max(keep))

strip(s) ==
  LET keep == {i \in 1..Len(s) : s[i] \notin Whitespace}
  IN  IF keep = {} THEN <<>> ELSE SubSeq(s, Min(keep), Max(keep))

\* str.lstrip(chars) / str.strip(chars) with an explicit character set.
lstrip_chars(s, chars) ==
  LET keep == {i \in 1..Len(s) : s[i] \notin chars}
  IN  IF keep = {} THEN <<>> ELSE SubSeq(s, Min(keep), Len(s))

strip_chars(s, chars) ==
  LET keep == {i \in 1..Len(s) : s[i] \notin chars}
  IN  IF keep = {} THEN <<>> ELSE SubSeq(s, Min(keep), Max(keep))

\* str.startswith(prefix)
startswith(s, prefix) ==
  /\ Len(prefix) <= Len(s)
  /\ SubSeq(s, 1, Len(prefix)) = prefix

\* `sub in s` for strings.
contains(s, sub) ==
  \E i \in 1..(Len(s) - Len(sub) + 1) : SubSeq(s, i, i + Len(sub) - 1) = sub

\* Index of the first occurrence of character c at or after position i
\* (1-based), or Len(s) + 1 when there is none.
FindFrom(s, c, i) ==
  LET hits == {j \in i..Len(s) : s[j] = c}
  IN  IF hits = {} THEN Len(s) + 1 ELSE Min(hits)

\* str.split(sep) on a single-character separator, keeping empty pieces.
RECURSIVE SplitFrom(_, _, _)
SplitFrom(s, sep, i) ==
  LET j == FindFrom(s, sep, i)
  IN  IF j > Len(s) THEN <<SubSeq(s, i, Len(s))>>
      ELSE <<SubSeq(s, i, j - 1)>> \o SplitFrom(s, sep, j + 1)

split(s, sep) == SplitFrom(s, sep, 1)

\* str.splitlines(): lines without their terminator; a final terminator does
\* not open a further empty line, and "" has no lines.
RECURSIVE SplitLinesFrom(_, _)
SplitLinesFrom(s, i) ==
  IF i > Len(s) THEN <<>>
  ELSE LET j == FindFrom(s, "\n", i)
       IN  <<SubSeq(s, i, j - 1)>> \o SplitLinesFrom(s, j + 1)

splitlines(s) == SplitLinesFrom(s, 1)

\* sep.join(parts)
RECURSIVE join(_, _)
join(sep, parts) ==
  IF parts = <<>> THEN <<>>
  ELSE IF Len(parts) = 1 THEN parts[1]
  ELSE parts[1] \o sep \o join(sep, Tail(parts))

(***************************************************************************)
(* State                                                                   *)
(***************************************************************************)

VARIABLES
  now,            \* the local date, as strftime("%Y-%m-%d") gives it
  watch_dir,      \* what --watch-dir names: "dir", "file" or "missing"
  skip_daily_dir, \* NewFileHandler.skip_daily_dir: --include-daily-dir not given
  fault,          \* what fails in the file system: "none", "source_unreadable",
                  \* "note_unreadable" or "write_fails"
  notes,          \* the daily notes: for each date the file note_path(date), as
                  \* [exists, text]
  tmp,            \* the temporary file beside the note daily_note: [exists, text]
  daily_note,     \* the date in the name of the note ensure_daily_note returned
                  \* or a write is for (p at line 40, daily at line 256)
  pc,             \* where the program is: "idle", inside main, a handler or a
                  \* write, "raised" (an exception left the handler) or "exited"
  exit_code,      \* the exit status of the process once pc = "exited"
  writing,        \* the write in progress: "none", "create", "append" or "insert"
  pending,        \* the content the write in progress was given
  call,           \* the add_link_under_inbox call _maybe_add still has to make
  loc,            \* the latest add_link_under_inbox call: its local variables r, the
                  \* file src whose event led to it (<<>> for a direct call), the
                  \* note before the event or call, and the note's date
  hist,           \* the arguments of the add_link_under_inbox calls so far, in order
  started,        \* main has passed the startup validation
  ev,             \* the event the handler was given last
  selfq           \* the events of the program's own writes not yet delivered

\* The variables of the program and its files; ev and selfq belong to the
\* delivery of events.
prog == <<now, watch_dir, skip_daily_dir, fault, notes, tmp, daily_note, pc,
          exit_code, writing, pending, call, loc, hist, started>>

vars == <<prog, ev, selfq>>

\* Today's daily note: the file at daily_note_path.
daily == notes[now]

(***************************************************************************)
(* Module constants and configuration                                      *)
(***************************************************************************)

INBOX_HEADER == <<"#","#"," ","I","n","b","o","x">>

SAVED_ARTICLES_HEADER == <<"#","#","#"," ","S","a","v","e","d"," ","A","r","t","i","c","l","e","s">>

\* None, for the str | None values of the source (sub_header, a missing title).
\* `if sub_header:` and `if not h1_title:` treat None and "" alike.
None == <<>>

\* The absent int | None of _header_level; a heading level is at least 1.
NoLevel == 0

\* --daily-dir, resolved (main, NewFileHandler.__init__).
daily_dir == <<"/","w","/","d">>

\* --watch-dir, resolved.
watch_root == <<"/","w">>

\* The two local dates of a run: the day the program starts in, and the day
\* after it.
FirstDay == <<"2","0","2","5","-","0","1","-","0","1">>

NextDay == <<"2","0","2","5","-","0","1","-","0","2">>

Days == {FirstDay, NextDay}

\* today_stamp(): datetime.now().strftime("%Y-%m-%d").
today_stamp == now

\* datetime.now().strftime("%Y%m%d"), the same date without the dashes.
today_ymd == SubSeq(now, 1, 4) \o SubSeq(now, 6, 7) \o SubSeq(now, 9, 10)

\* daily_dir / f"{stamp}.md": the path of the daily note of a date.
note_path(stamp) == daily_dir \o <<"/">> \o stamp \o <<".","m","d">>

\* daily_note_path(daily_dir), with the date read when it is called.
daily_note_path == note_path(today_stamp)

\* path.with_suffix(path.suffix + ".tmp") (line 55).
tmp_path(path) == path \o <<".","t","m","p">>

(***************************************************************************)
(* _header_level, the link pattern and link normalization                  *)
(***************************************************************************)

\* _header_level(line): the number of leading '#' after leading whitespace.
_header_level(line) ==
  LET s == lstrip(line)
  IN  IF ~startswith(s, <<"#">>) THEN NoLevel
      ELSE Len(s) - Len(lstrip_chars(s, {"#"}))

\* link_re.search(ln) for link_re = \[[^\]]*\]\(([^)]+)\): the leftmost match.
\* From a '[' at i the class [^\]]* ends at the first ']' after i, which must be
\* followed by '('; the group [^)]+ then runs to the first ')' and is not empty.
LinkMatchAt(ln, i) ==
  LET j == FindFrom(ln, "]", i + 1)
      k == FindFrom(ln, ")", j + 2)
  IN  IF /\ ln[i] = "["
         /\ j < Len(ln)
         /\ ln[j + 1] = "("
         /\ k <= Len(ln)
         /\ k > j + 2
      THEN [found |-> TRUE, group1 |-> SubSeq(ln, j + 2, k - 1)]
      ELSE [found |-> FALSE, group1 |-> <<>>]

link_re_search(ln) ==
  LET starts == {i \in 1..Len(ln) : LinkMatchAt(ln, i).found}
  IN  IF starts = {} THEN [found |-> FALSE, group1 |-> <<>>]
      ELSE LinkMatchAt(ln, Min(starts))

\* The parts of a pathlib path: empty and "." components are dropped.
IsPathPart(seg) == seg # <<>> /\ seg # <<".">>

PathParts(url) == SelectSeq(split(url, "/"), IsPathPart)

\* Path.is_absolute() on POSIX.
is_absolute(url) == startswith(url, <<"/">>)

\* Path.resolve() on absolute parts, in a tree without symbolic links: ".."
\* removes the component before it and is dropped at the root.
RECURSIVE ResolveParts(_, _)
ResolveParts(done, rest) ==
  IF rest = <<>> THEN done
  ELSE IF Head(rest) = <<".", ".">>
       THEN ResolveParts(SubSeq(done, 1, Len(done) - 1), Tail(rest))
       ELSE ResolveParts(Append(done, Head(rest)), Tail(rest))

\* Path.as_posix() of an absolute path given by its parts.
as_posix(parts) == <<"/">> \o join(<<"/">>, parts)

\* Path.parent of an absolute path string.
PathParent(path) ==
  LET parts == PathParts(path)
  IN  as_posix(SubSeq(parts, 1, Len(parts) - 1))

\* Path.name: the final component.
PathName(path) ==
  LET parts == PathParts(path)
  IN  IF parts = <<>> THEN <<>> ELSE parts[Len(parts)]

\* _normalize_md_link_url(url, base_dir)
_normalize_md_link_url(url, base_dir) ==
  IF startswith(url, <<"h","t","t","p",":","/","/">>) \/ startswith(url, <<"h","t","t","p","s",":","/","/">>)
  THEN url
  ELSE IF ~is_absolute(url)
       THEN as_posix(ResolveParts(<<>>, PathParts(base_dir) \o PathParts(url)))
       ELSE as_posix(ResolveParts(<<>>, PathParts(url)))

(***************************************************************************)
(* add_link_under_inbox                                                    *)
(***************************************************************************)

\* find_header that looks through the whole document, not only [lo, hi).
find_header_anywhere(lines, header, lo, hi) ==
  LET hits == {i \in 0..(Len(lines) - 1) : strip(At(lines, i)) = header}
  IN  IF hits = {} THEN -1 ELSE Min(hits)

\* The loops at lines 108-111 and 133-136: the first index i in [lo, hi) whose
\* stripped line equals header, or -1 for the None the source keeps.
find_header(lines, header, lo, hi) ==
  LET hits == {i \in lo..(hi - 1) : strip(At(lines, i)) = header}
  IN  IF hits = {} THEN -1 ELSE Min(hits)

\* ends_block with the comparison `lvl < level`: a heading of the block's own
\* level no longer ends it.
ends_block_strict(line, level) ==
  /\ _header_level(line) # NoLevel
  /\ _header_level(line) < level

\* Whether a line ends a block of the given level (lines 120-121, 156-157).
ends_block(line, level) ==
  /\ _header_level(line) # NoLevel
  /\ _header_level(line) <= level

\* The loops at lines 117-123 and 154-159: the first index i in [lo, hi) whose
\* line is a header of level <= level, or hi when there is none.
block_end_scan(lines, lo, hi, level) ==
  LET hits == {i \in lo..(hi - 1) : ends_block(At(lines, i), level)}
  IN  IF hits = {} THEN hi ELSE Min(hits)

\* create_sub_header without the shifts of inbox_end (lines 144 and 150).
create_sub_header_unshifted(lines, inbox_start, inbox_end, sub_header) ==
  IF inbox_start < Len(lines) /\ strip(At(lines, inbox_start)) # <<>>
  THEN [lines |-> ListInsert(ListInsert(ListInsert(lines, inbox_start, <<>>),
                                        inbox_start + 1, sub_header),
                             inbox_start + 2, <<>>),
        sub_idx |-> inbox_start + 1,
        inbox_end |-> inbox_end]
  ELSE [lines |-> ListInsert(ListInsert(lines, inbox_start, sub_header),
                             inbox_start + 1, <<>>),
        sub_idx |-> inbox_start,
        inbox_end |-> inbox_end]

\* Lines 138-150: the sub_header is missing from the Inbox range; insert it
\* (after a blank line if the Inbox range starts with text) right after
\* '## Inbox', followed by a blank line, and shift inbox_end.
create_sub_header(lines, inbox_start, inbox_end, sub_header) ==
  IF inbox_start < Len(lines) /\ strip(At(lines, inbox_start)) # <<>>
  THEN [lines |-> ListInsert(ListInsert(ListInsert(lines, inbox_start, <<>>),
                                        inbox_start + 1, sub_header),
                             inbox_start + 2, <<>>),
        sub_idx |-> inbox_start + 1,
        inbox_end |-> inbox_end + 1 + 2]
  ELSE [lines |-> ListInsert(ListInsert(lines, inbox_start, sub_header),
                             inbox_start + 1, <<>>),
        sub_idx |-> inbox_start,
        inbox_end |-> inbox_end + 2]

\* Lines 162-169: the normalized targets of the first link of every line of
\* lines[block_start:block_end].
existing_targets(lines, block_start, block_end, base_dir) ==
  {_normalize_md_link_url(strip(link_re_search(At(lines, i)).group1), base_dir) :
     i \in {n \in block_start..(block_end - 1) : link_re_search(At(lines, n)).found}}

\* already_present with the test of line 172 inverted.
already_present_inverted(new_target, targets) == new_target \notin targets

\* Line 172: the requested link is already present in the block.
already_present(new_target, targets) == new_target \in targets

\* Line 175: f"- [{title}]({link_url})"
bullet(title, link_url) ==
  <<"-", " ", "[">> \o title \o <<"]", "(">> \o link_url \o <<")">>

\* insert_bullet that puts the bullet in the place of the line at block_start.
insert_bullet_over(lines, block_start, title, link_url) ==
  IF block_start < Len(lines) /\ strip(At(lines, block_start)) # <<>>
  THEN [lines EXCEPT ![block_start + 1] = bullet(title, link_url)]
  ELSE ListInsert(lines, block_start, bullet(title, link_url))

\* Lines 177-187: keep a blank line at the start of the block, then insert the
\* bullet.
insert_bullet(lines, block_start, title, link_url) ==
  IF block_start < Len(lines) /\ strip(At(lines, block_start)) # <<>>
  THEN ListInsert(ListInsert(lines, block_start, <<>>),
                  block_start + 1, bullet(title, link_url))
  ELSE ListInsert(lines, block_start, bullet(title, link_url))

\* Line 188: "\n".join(lines).rstrip() + "\n"
serialize(lines) ==
  With(join(<<"\n">>, lines), LAMBDA joined : rstrip(joined) \o <<"\n">>)

\* Lines 106-114: locate '## Inbox', or append it after a blank line and
\* with a blank line after it.
locate_inbox(lines) ==
  With(find_header(lines, INBOX_HEADER, 0, Len(lines)), LAMBDA found :
    IF found = -1
    THEN [lines |-> lines \o <<<<>>, INBOX_HEADER, <<>>>>, inbox_idx |-> Len(lines) + 1]
    ELSE [lines |-> lines, inbox_idx |-> found])

\* Line 129: _header_level(sub_header) or 3
sub_level(sub_header) ==
  IF _header_level(sub_header) # NoLevel THEN _header_level(sub_header) ELSE 3

\* Lines 126-159: the block the link goes to. Without a sub_header it is the
\* Inbox range; with one it is the range of the sub-section, which is created
\* when the Inbox range does not hold its heading.
locate_block(lines, inbox_start, inbox_end, sub_header) ==
  IF sub_header = None
  THEN [lines |-> lines, inbox_end |-> inbox_end, sub_idx |-> -1,
        block_start |-> inbox_start, block_end |-> inbox_end]
  ELSE With(find_header(lines, sub_header, inbox_start, inbox_end), LAMBDA found :
       With(IF found = -1
            THEN create_sub_header(lines, inbox_start, inbox_end, sub_header)
            ELSE [lines |-> lines, sub_idx |-> found, inbox_end |-> inbox_end], LAMBDA s :
         [lines |-> s.lines, inbox_end |-> s.inbox_end, sub_idx |-> s.sub_idx,
          block_start |-> s.sub_idx + 1,
          block_end |-> block_end_scan(s.lines, s.sub_idx + 1, s.inbox_end,
                                       sub_level(sub_header))]))

\* add_link_under_inbox up to the decision of line 172, on the text read at
\* line 103: the local variables at the de-duplication scan, whether the
\* function returns there (present), and the text it writes otherwise.
add_link_under_inbox(text, title, link_url, sub_header) ==
  With(locate_inbox(splitlines(text)), LAMBDA a :
  With(block_end_scan(a.lines, a.inbox_idx + 1, Len(a.lines), 2), LAMBDA inbox_end1 :
  With(locate_block(a.lines, a.inbox_idx + 1, inbox_end1, sub_header), LAMBDA b :
  With(existing_targets(b.lines, b.block_start, b.block_end, PathParent(daily_note_path)),
       LAMBDA targets :
  With(_normalize_md_link_url(link_url, PathParent(daily_note_path)), LAMBDA new_target :
    [title |-> title, link_url |-> link_url, sub_header |-> sub_header,
     text |-> text, lines |-> b.lines,
     inbox_idx |-> a.inbox_idx, inbox_start |-> a.inbox_idx + 1,
     inbox_end |-> b.inbox_end, sub_idx |-> b.sub_idx,
     block_start |-> b.block_start, block_end |-> b.block_end,
     existing_targets |-> targets, new_target |-> new_target,
     present |-> already_present(new_target, targets),
     new_text |-> IF already_present(new_target, targets) THEN text
                  ELSE serialize(insert_bullet(b.lines, b.block_start, title, link_url))])))))

(***************************************************************************)
(* The watched tree and the event filters of NewFileHandler._maybe_add     *)
(***************************************************************************)

Digits == {"0", "1", "2", "3", "4", "5", "6", "7", "8", "9"}

UpperCase == <<"A","B","C","D","E","F","G","H","I","J","K","L","M",
               "N","O","P","Q","R","S","T","U","V","W","X","Y","Z">>

LowerCase == <<"a","b","c","d","e","f","g","h","i","j","k","l","m",
               "n","o","p","q","r","s","t","u","v","w","x","y","z">>

\* str.lower()
lower(s) ==
  [i \in 1..Len(s) |->
     IF \E k \in 1..26 : UpperCase[k] = s[i]
     THEN LowerCase[CHOOSE k \in 1..26 : UpperCase[k] = s[i]]
     ELSE s[i]]

MD_EXTS == {<<".","m","d">>, <<".","m","a","r","k","d","o","w","n">>}

\* Path.suffix: the name from its last '.', unless that dot is the first or
\* the last character of the name.
PathSuffix(path) ==
  LET name == PathName(path)
      dots == {i \in 1..Len(name) : name[i] = "."}
  IN  IF dots = {} \/ Max(dots) = 1 \/ Max(dots) = Len(name) THEN <<>>
      ELSE SubSeq(name, Max(dots), Len(name))

is_markdown_file(path) == lower(PathSuffix(path)) \in MD_EXTS

\* Path.resolve() of an absolute path in a tree without symbolic links.
resolve(path) == as_posix(ResolveParts(<<>>, PathParts(path)))

\* Whether path.relative_to(root) succeeds, and its as_posix() when it does.
is_relative_to(path, root) ==
  LET p == PathParts(path)
      r == PathParts(root)
  IN  Len(r) <= Len(p) /\ SubSeq(p, 1, Len(r)) = r

relative_to(path, root) ==
  LET p == PathParts(path)
      r == PathParts(root)
  IN  join(<<"/">>, SubSeq(p, Len(r) + 1, Len(p)))

\* The length of the match of \.conform\.\d+\. that starts at position i of s,
\* or 0 when there is none.
conform_match(s, i) ==
  LET lit    == <<".","c","o","n","f","o","r","m",".">>
      d0     == i + Len(lit)
      nondig == {j \in d0..Len(s) : s[j] \notin Digits}
      d1     == IF nondig = {} THEN Len(s) + 1 ELSE Min(nondig)
  IN  IF /\ i + Len(lit) - 1 <= Len(s)
         /\ SubSeq(s, i, i + Len(lit) - 1) = lit
         /\ d1 > d0
         /\ d1 <= Len(s)
         /\ s[d1] = "."
      THEN d1 - i + 1
      ELSE 0

\* re.sub(r"\.conform\.\d+\.", "", s): every match removed, left to right.
RECURSIVE sub_conform_from(_, _)
sub_conform_from(s, i) ==
  IF i > Len(s) THEN <<>>
  ELSE IF conform_match(s, i) > 0 THEN sub_conform_from(s, i + conform_match(s, i))
  ELSE <<s[i]>> \o sub_conform_from(s, i + 1)

sub_conform(s) == sub_conform_from(s, 1)

\* Lines 66-71: the name without a leading '.conform.<digits>.' matches
\* \d{8}\d{4}\.md; ymd is its first eight characters.
clean_name(path) ==
  LET name == PathName(path)
  IN  IF conform_match(name, 1) > 0
      THEN SubSeq(name, conform_match(name, 1) + 1, Len(name))
      ELSE name

_is_note_name(path) ==
  LET clean == clean_name(path)
  IN  /\ Len(clean) = 15
      /\ \A i \in 1..12 : clean[i] \in Digits
      /\ SubSeq(clean, 13, 15) = <<".","m","d">>

\* _is_note_from_today that lets every name pass.
_is_note_from_today_any_name(path) == TRUE

\* _is_note_from_today without the comparison of line 72.
_is_note_from_today_any_date(path) == _is_note_name(path)

\* _is_note_from_today(path): the name matches and its ymd is the local date
\* read at line 72.
_is_note_from_today(path) ==
  /\ _is_note_name(path)
  /\ SubSeq(clean_name(path), 1, 8) = today_ymd

\* H1_RE.match(line) for H1_RE = ^\s*#\s+(.+?)\s*$ on a line without its
\* terminator: after leading whitespace one '#', whitespace, and at least one
\* more character.
h1_matches(line) ==
  LET s == lstrip(line)
  IN  Len(s) >= 3 /\ s[1] = "#" /\ s[2] \in Whitespace

\* m.group(1).strip().strip("#").strip() of a matching line.
h1_title(line) ==
  LET s == lstrip(line)
  IN  strip(strip_chars(strip(SubSeq(s, 3, Len(s))), {"#"}))

\* extract_h1_title on the text of a file: the title of the first line that
\* matches H1_RE, None when it is empty or no line matches.
extract_h1_title(text) ==
  With(splitlines(text), LAMBDA lines :
  With({i \in 1..Len(lines) : h1_matches(lines[i])}, LAMBDA hits :
    IF hits = {} THEN None ELSE h1_title(lines[Min(hits)])))

\* The regular files below the watched root that the program does not write,
\* with their text: two notes of the first day, each also under the name its
\* editor gives it while writing it, a note of the day before, and a file
\* that is no note.
WatchedFiles ==
  { [path |-> <<"/","w","/","2","0","2","5","0","1","0","1","1","2","3","0",".","m","d">>,
     text |-> <<"#"," ","M","y"," ","N","o","t","e","\n">>],
    [path |-> <<"/","w","/",".","c","o","n","f","o","r","m",".","1","2","3",".","2","0","2","5","0","1","0","1","1","2","3","0",".","m","d">>,
     text |-> <<"#"," ","M","y"," ","N","o","t","e","\n">>],
    [path |-> <<"/","w","/","I","n","b","o","x","/","R","S","S","_","F","e","e","d","/","2","0","2","5","0","1","0","1","1","2","3","0",".","m","d">>,
     text |-> <<"#"," ","[","x","]"," ","y","\n">>],
    [path |-> <<"/","w","/","I","n","b","o","x","/","R","S","S","_","F","e","e","d","/",".","c","o","n","f","o","r","m",".","7",".","2","0","2","5","0","1","0","1","1","2","3","0",".","m","d">>,
     text |-> <<"#"," ","[","x","]"," ","y","\n">>],
    [path |-> <<"/","w","/","2","0","2","4","1","2","3","1","1","2","3","0",".","m","d">>,
     text |-> <<"#"," ","M","y"," ","N","o","t","e","\n">>],
    [path |-> <<"/","w","/","n","o","t","e","s",".","m","d">>,
     text |-> <<"p","l","a","i","n"," ","t","e","x","t","\n">>] }

\* The paths events are delivered for from outside the program: the watched
\* files and one file that is gone by the time its event is handled.
EventPaths ==
  {f.path : f \in WatchedFiles} \cup {<<"/","w","/","g","o","n","e",".","m","d">>}

\* The events the file system reports for them. The editor creates a note
\* under its temporary name and renames it to its final name; the other files
\* are written in place. (The three handlers differ only in on_moved's test
\* of the destination, so one kind of event per path shows them all.)
CreatedPaths == {path \in EventPaths : conform_match(PathName(path), 1) > 0}

MovedPaths == {path \in EventPaths \ CreatedPaths : _is_note_name(path)}

ModifiedPaths == EventPaths \ (CreatedPaths \cup MovedPaths)

\* p.exists() and p.is_file(): a watched file, a daily note or the temporary
\* file of the write in progress.
path_exists(path) ==
  \/ \E f \in WatchedFiles : f.path = path
  \/ \E d \in Days : path = note_path(d) /\ notes[d].exists
  \/ path = tmp_path(note_path(daily_note)) /\ tmp.exists

read_file(path) ==
  IF \E f \in WatchedFiles : f.path = path
  THEN (CHOOSE f \in WatchedFiles : f.path = path).text
  ELSE IF \E d \in Days : path = note_path(d)
       THEN notes[CHOOSE d \in Days : path = note_path(d)].text
       ELSE tmp.text

\* Lines 202-211: an exception while the file is opened or read gives None.
title_of(path) ==
  IF fault = "source_unreadable" THEN None ELSE extract_h1_title(read_file(path))

\* is_rss with the prefix 'RSS_Feed/' in place of 'Inbox/RSS_Feed/'.
is_rss_bare_prefix(rel_from_vault) == startswith(rel_from_vault, <<"R","S","S","_","F","e","e","d","/">>)

\* Line 266: RSS files go under '### Saved Articles'.
is_rss(rel_from_vault) == startswith(rel_from_vault, <<"I","n","b","o","x","/","R","S","S","_","F","e","e","d","/">>)

\* Lines 229-253: the filters of _maybe_add; TRUE when the event is dropped.
rejected(path) ==
  \/ ~path_exists(path)
  \/ ~is_markdown_file(path)
  \/ (skip_daily_dir /\ is_relative_to(resolve(path), daily_dir))
  \/ resolve(path) = resolve(daily_note_path)
  \/ ~is_relative_to(resolve(path), watch_root)
  \/ ~_is_note_from_today(path)
  \/ title_of(path) = None

\* Lines 251-269: the arguments _maybe_add passes to add_link_under_inbox, with
\* the file the event is about, the note as the event found it and the date
\* the filter of line 248 read.
link_call(path, note) ==
  LET rel == relative_to(resolve(path), watch_root)
  IN  [active |-> TRUE,
       src |-> path,
       before |-> note,
       ymd |-> today_ymd,
       title |-> title_of(path),
       link_url |-> sub_conform(rel),
       sub_header |-> IF is_rss(rel) THEN SAVED_ARTICLES_HEADER ELSE None]

(***************************************************************************)
(* Inputs                                                                  *)
(***************************************************************************)

\* an empty file
NoteEmpty ==
  <<>>

\* the note ensure_daily_note creates
NoteFresh ==
  <<"#"," ","2","0","2","5","-","0","1","-","0","1","\n","\n","#","#"," ","I","n","b","o","x","\n","\n">>

\* the heading alone, without a final newline
NoteBare ==
  <<"#","#"," ","I","n","b","o","x">>

\* a note without the Inbox heading
NoteNoInbox ==
  <<"n","o","t","e","s","\n">>

\* entries at both levels, a deeper and an equal heading after the sub-section,
\* and a level-2 heading after the Inbox
NoteNested ==
  <<"#","#"," ","I","n","b","o","x","\n","-"," ","[","o","]","(","c",".","m","d",")","\n","#","#","#"," ","S","a","v","e","d"," ","A","r","t","i","c","l","e","s","\n","\n","-"," ","[","s","]","(","a","/","b",".","m","d",")","\n","#","#","#","#"," ","D","e","e","p","\n","#","#","#"," ","N","e","x","t","\n","#","#"," ","L","a","t","e","r","\n","-"," ","[","z","]","(","c",".","m","d",")","\n">>

\* the sub-section heading only outside the Inbox range, which a level-1 heading ends
NoteStray ==
  <<"#","#","#"," ","S","a","v","e","d"," ","A","r","t","i","c","l","e","s","\n","#","#"," ","I","n","b","o","x","\n","#","#","#","#"," ","D","e","e","p","\n","t","e","x","t","\n","#"," ","T","o","p","\n","#","#","#"," ","S","a","v","e","d"," ","A","r","t","i","c","l","e","s","\n">>

\* trailing whitespace after the Inbox heading and after the last line, a
\* level-2 heading that ends an empty Inbox range
NoteTrailing ==
  <<"#","#"," ","I","n","b","o","x"," ","\n","#","#"," ","L","a","t","e","r"," ","\n">>

\* The texts today's daily note may hold when the program starts.
InitialTexts ==
  {NoteEmpty, NoteFresh, NoteBare, NoteNoInbox, NoteNested, NoteStray, NoteTrailing}

PlainTitle == <<"M","y"," ","N","o","t","e">>

\* A title with square brackets, as the heading '# [x] y' gives.
BracketTitle == <<"[","x","]"," ","y">>

\* One file in four spellings: relative, with a leading "./", absolute, and
\* with a trailing slash.
SameFile ==
  { <<"a","/","b",".","m","d">>,
    <<".","/","a","/","b",".","m","d">>,
    <<"/","w","/","d","/","a","/","b",".","m","d">>,
    <<"a","/","b",".","m","d","/">> }

OtherFile == <<"c",".","m","d">>

WebUrl == <<"h","t","t","p",":","/","/","h">>

\* The (title, link_url) pairs add_link_under_inbox is called with.
Links ==
  {<<PlainTitle, u>> : u \in SameFile \cup {OtherFile, WebUrl}}
    \cup {<<BracketTitle, <<"a","/","b",".","m","d">>>>,
          <<BracketTitle, <<".","/","a","/","b",".","m","d">>>>}

\* The sub_header values the program passes (line 268).
SubHeaders == {None, SAVED_ARTICLES_HEADER}

\* The number of add_link_under_inbox calls of a run.
MaxCalls == 2

\* The number of add_link_under_inbox calls of a run across midnight.
MaxSeen == 1

NoFile == [exists |-> FALSE, text |-> <<>>]

NoCall == [active |-> FALSE]

NoEvent == [path |-> <<>>, own |-> FALSE, accepted |-> FALSE, ymd |-> <<>>, odd |-> FALSE]

\* What --watch-dir may name: a directory, a regular file, nothing.
WatchDirs ==
  { [exists |-> TRUE, is_dir |-> TRUE],
    [exists |-> TRUE, is_dir |-> FALSE],
    [exists |-> FALSE, is_dir |-> FALSE] }

\* The state when the process starts, on the first day: today's note absent or
\* with one of the initial texts, tomorrow's note absent.
Init ==
  /\ now = FirstDay
  /\ watch_dir \in WatchDirs
  /\ skip_daily_dir \in BOOLEAN
  /\ fault = "none"
  /\ notes \in {[d \in Days |-> IF d = FirstDay THEN f ELSE NoFile] :
                  f \in {NoFile} \cup {[exists |-> TRUE, text |-> t] : t \in InitialTexts}}
  /\ tmp = NoFile
  /\ daily_note = FirstDay
  /\ pc = "idle"
  /\ exit_code = 0
  /\ writing = "none"
  /\ pending = <<>>
  /\ call = NoCall
  /\ loc = [called |-> FALSE]
  /\ hist = <<>>
  /\ started = FALSE
  /\ ev = NoEvent
  /\ selfq = {}

\* The variables no step of the program changes: the clock, the command line
\* and the state of the file system's health.
env == <<now, watch_dir, skip_daily_dir, fault>>

(***************************************************************************)
(* Writes                                                                  *)
(***************************************************************************)

\* Where control goes when a write or ensure_daily_note is done: on to line
\* 269 inside _maybe_add, else back to the caller.
after_ensure(c) == IF c.active THEN "add_link" ELSE "idle"

\* The step belongs to the handling of an event: the observer runs and the
\* program is between line 256 and line 269, or in the write of line 189.
in_handler == started /\ (call.active \/ pc = "add_link" \/ writing = "insert")

\* The file system reports a change the program made below the watched root
\* (the observer is scheduled recursively, line 333, and the daily notes lie
\* below the root); before observer.start() nothing is reported.
notify(e) == IF in_handler THEN selfq \cup {e} ELSE selfq

\* An exception nothing catches: it leaves the handler when the step belongs
\* to one (lines 226-269 hold no try around lines 256 and 269), and main
\* otherwise, which ends the process with exit status 1.
raise ==
  /\ pc' = IF in_handler THEN "raised" ELSE "exited"
  /\ exit_code' = IF in_handler THEN exit_code ELSE 1
  /\ UNCHANGED <<notes, tmp, daily_note, writing, pending, selfq>>

\* _atomic_write that opens the note itself instead of a temporary file, the
\* way line 44 writes.
_atomic_write_in_place(stamp, kind, content) ==
  /\ notes' = [notes EXCEPT ![stamp] = [exists |-> TRUE, text |-> <<>>]]
  /\ tmp' = tmp
  /\ daily_note' = stamp
  /\ writing' = kind
  /\ pending' = content
  /\ pc' = "create_write"
  /\ UNCHANGED <<exit_code, selfq>>

\* _atomic_write(path, content) for the note of the date stamp, line 55-56:
\* tmp.write_text opens (creates, truncates) the temporary file beside the
\* note, or fails.
_atomic_write(stamp, kind, content) ==
  IF fault = "write_fails"
  THEN raise
  ELSE /\ tmp' = [exists |-> TRUE, text |-> <<>>]
       /\ notes' = notes
       /\ daily_note' = stamp
       /\ writing' = kind
       /\ pending' = content
       /\ pc' = "tmp_write"
       /\ exit_code' = exit_code
       /\ selfq' = notify([kind |-> "created", path |-> tmp_path(note_path(stamp))])

\* Line 56: the content reaches the temporary file.
tmp_write_text ==
  /\ pc = "tmp_write"
  /\ tmp' = [exists |-> TRUE, text |-> pending]
  /\ pc' = "replace"
  /\ UNCHANGED <<env, notes, daily_note, exit_code, writing, pending, call, loc, hist,
                 started, ev, selfq>>

\* Line 57: os.replace(tmp, path) renames the temporary file over the note.
os_replace ==
  /\ pc = "replace"
  /\ notes' = [notes EXCEPT ![daily_note] = tmp]
  /\ tmp' = NoFile
  /\ writing' = "none"
  /\ pc' = after_ensure(call)
  /\ selfq' = notify([kind |-> "moved", path |-> note_path(daily_note)])
  /\ UNCHANGED <<env, daily_note, exit_code, pending, call, loc, hist, started, ev>>

\* Line 44: p.write_text opens (creates) the note itself ...
write_text_open(content) ==
  /\ notes' = [notes EXCEPT ![daily_note] = [exists |-> TRUE, text |-> <<>>]]
  /\ tmp' = tmp
  /\ daily_note' = daily_note
  /\ writing' = "create"
  /\ pending' = content
  /\ pc' = "create_write"
  /\ exit_code' = exit_code
  /\ selfq' = notify([kind |-> "created", path |-> note_path(daily_note)])

\* ... and then the content reaches it.
write_text ==
  /\ pc = "create_write"
  /\ notes' = [notes EXCEPT ![daily_note] = [exists |-> TRUE, text |-> pending]]
  /\ writing' = "none"
  /\ pc' = after_ensure(call)
  /\ UNCHANGED <<env, tmp, daily_note, exit_code, pending, call, loc, hist, started, ev, selfq>>

(***************************************************************************)
(* ensure_daily_note, add_link_under_inbox, the handler and main           *)
(***************************************************************************)

\* Line 43: the text of a new daily note, with the date read at that line.
new_note_text == <<"#"," ">> \o today_stamp \o <<"\n","\n">> \o INBOX_HEADER \o <<"\n","\n">>

\* Line 49 appending a heading that line 48 does not find again.
with_inbox_unspaced(text) ==
  rstrip(text) \o <<"\n","\n","#","#","I","n","b","o","x","\n","\n">>

\* Line 49: the text with the missing Inbox heading appended.
with_inbox(text) == rstrip(text) \o <<"\n","\n">> \o INBOX_HEADER \o <<"\n","\n">>

\* ensure_daily_note, lines 40-41 and 45-51: p is today's note, by the date
\* read at line 40. A note that exists is read and gets the Inbox heading
\* appended when its text does not hold it; a note that does not exist is
\* created by lines 42-44.
ensure_daily_note ==
  /\ pc = "ensure"
  /\ IF ~daily.exists
     THEN /\ pc' = "create"
          /\ daily_note' = now
          /\ UNCHANGED <<notes, tmp, exit_code, writing, pending, selfq>>
     ELSE IF fault = "note_unreadable"
          THEN raise
          ELSE IF ~contains(daily.text, INBOX_HEADER)
               THEN _atomic_write(now, "append", with_inbox(daily.text))
               ELSE /\ pc' = after_ensure(call)
                    /\ daily_note' = now
                    /\ UNCHANGED <<notes, tmp, exit_code, writing, pending, selfq>>
  /\ UNCHANGED <<env, call, loc, hist, started, ev>>

\* ensure_daily_note, lines 42-44: the content is made with the date read at
\* line 43 and written to p.
create_note ==
  /\ pc = "create"
  /\ IF fault = "write_fails"
     THEN raise
     ELSE write_text_open(new_note_text)
  /\ UNCHANGED <<env, call, loc, hist, started, ev>>

\* add_link_under_inbox on the note as it is on disk: the read of line 103,
\* then the de-duplication return of line 173 or the write of line 189.
run_add_link(src, before, title, link_url, sub_header) ==
  /\ Len(hist) < MaxCalls
  /\ notes[daily_note].exists
  /\ IF fault = "note_unreadable"
     THEN /\ raise
          /\ UNCHANGED <<call, loc, hist>>
     ELSE \E r \in {add_link_under_inbox(notes[daily_note].text, title, link_url, sub_header)} :
           /\ hist' = Append(hist, [src |-> src, title |-> title, link_url |-> link_url,
                                    sub_header |-> sub_header])
           /\ loc' = [called |-> TRUE, src |-> src, before |-> before, r |-> r,
                      note |-> daily_note,
                      ymd |-> IF call.active THEN call.ymd ELSE today_ymd]
           /\ call' = NoCall
           /\ IF r.present
              THEN /\ pc' = "idle"
                   /\ UNCHANGED <<notes, tmp, daily_note, exit_code, writing, pending, selfq>>
              ELSE _atomic_write(daily_note, "insert", r.new_text)

\* A direct call of add_link_under_inbox(daily_note, title, link_url, sub_header)
\* on today's note.
Call(title, link_url, sub_header) ==
  /\ pc = "idle"
  /\ daily_note = now
  /\ run_add_link(<<>>, daily, title, link_url, sub_header)
  /\ UNCHANGED <<env, started, ev>>

\* Line 269: the call _maybe_add makes once ensure_daily_note has returned.
add_link ==
  /\ pc = "add_link"
  /\ run_add_link(call.src, call.before, call.title, call.link_url, call.sub_header)
  /\ UNCHANGED <<env, started, ev>>

\* NewFileHandler._maybe_add(path), lines 228-253: the filters, with the date
\* line 248 reads; an event that passes them goes on to line 256.
_maybe_add(path) ==
  /\ pc = "idle"
  /\ started
  /\ IF rejected(path)
     THEN UNCHANGED prog
     ELSE /\ call' = link_call(path, daily)
          /\ pc' = "ensure"
          /\ UNCHANGED <<env, notes, tmp, daily_note, exit_code, writing, pending, loc, hist,
                         started>>

\* on_created, on_modified (events of files, not directories) and on_moved
\* (the destination, when it lies in the watched tree).
on_created(path) == _maybe_add(path)

on_modified(path) == _maybe_add(path)

on_moved(dest) ==
  /\ is_relative_to(resolve(dest), resolve(watch_root))
  /\ _maybe_add(dest)

\* startup_invalid that only asks whether the path exists.
startup_invalid_exists_only(root) == ~root.exists

\* Line 319: not watch_root.exists() or not watch_root.is_dir()
startup_invalid(root) == ~root.exists \/ ~root.is_dir

\* main, lines 317-334. With an invalid --watch-dir the branch of line 319 is
\* taken: logging.error is called with the keyword file=, which it does not
\* take, so the TypeError ends the process with exit status 1 before
\* sys.exit(1) is reached. Otherwise the startup ensure_daily_note runs and
\* then the observer.
main ==
  /\ pc = "idle"
  /\ ~started
  /\ IF startup_invalid(watch_dir)
     THEN /\ pc' = "exited"
          /\ exit_code' = 1
          /\ UNCHANGED <<call, started>>
     ELSE /\ started' = TRUE
          /\ call' = NoCall
          /\ pc' = "ensure"
          /\ exit_code' = exit_code
  /\ UNCHANGED <<env, notes, tmp, daily_note, writing, pending, loc, hist, ev, selfq>>

(***************************************************************************)
(* The delivery of events                                                  *)
(***************************************************************************)

\* What is recorded of an event when the handler gets it: whether it passes
\* the filters, and the date they read; odd tells an event from the one
\* before it.
seen(path, own) ==
  [path |-> path, own |-> own, accepted |-> ~rejected(path), ymd |-> today_ymd,
   odd |-> ~ev.odd]

\* The event is one of a change made from outside the program; seeing tells
\* whether the run records the events the handler gets, calls bounds the
\* add_link_under_inbox calls after which no further event comes.
external(path, seeing, calls) ==
  /\ Len(hist) < calls
  /\ ev' = IF seeing THEN seen(path, FALSE) ELSE ev
  /\ selfq' = selfq

\* The observer delivers the event of one of the program's own writes: a
\* created file to on_created, the rename over the note to on_moved.
own_event(e, seeing) ==
  /\ IF e.kind = "moved" THEN on_moved(e.path) ELSE on_created(e.path)
  /\ ev' = IF seeing THEN seen(e.path, TRUE) ELSE ev
  /\ selfq' = selfq \ {e}

\* Midnight: the local date becomes that of the next day.
tick ==
  /\ now = FirstDay
  /\ now' = NextDay
  /\ UNCHANGED <<watch_dir, skip_daily_dir, fault, notes, tmp, daily_note, pc,
                 exit_code, writing, pending, call, loc, hist, started, ev, selfq>>

\* From now on the file system fails one kind of operation: reading the
\* source file of an event (line 203), reading the daily note (lines 47 and
\* 103), or writing in the daily directory (lines 44 and 56).
Faults == {"source_unreadable", "note_unreadable", "write_fails"}

fail(kind) ==
  /\ fault = "none"
  /\ fault' = kind
  /\ UNCHANGED <<now, watch_dir, skip_daily_dir, notes, tmp, daily_note, pc,
                 exit_code, writing, pending, call, loc, hist, started, ev, selfq>>

\* The program: main, then the handler on events, one at a time.
Run(seeing, calls) ==
  \/ main
  \/ ensure_daily_note
  \/ create_note
  \/ \E path \in CreatedPaths : on_created(path) /\ external(path, seeing, calls)
  \/ \E path \in ModifiedPaths : on_modified(path) /\ external(path, seeing, calls)
  \/ \E path \in MovedPaths : on_moved(path) /\ external(path, seeing, calls)
  \/ \E e \in selfq : own_event(e, seeing)
  \/ add_link
  \/ write_text
  \/ tmp_write_text
  \/ os_replace

\* The command line without --include-daily-dir.
InitDefault ==
  /\ Init
  /\ skip_daily_dir

\* The program on one day, with a file system that works.
Next == Run(FALSE, MaxCalls)

Spec == InitDefault /\ [][Next]_vars

\* add_link_under_inbox called on a note, one call after the other.
InitCall ==
  /\ InitDefault
  /\ watch_dir.is_dir

NextCall ==
  \/ \E l \in Links, s \in SubHeaders : Call(l[1], l[2], s)
  \/ tmp_write_text
  \/ os_replace

SpecCall == InitCall /\ [][NextCall]_vars

\* The program across midnight, with or without --include-daily-dir, the
\* events the handler gets recorded: today's note is absent, fresh, or without
\* the Inbox heading when the process starts.
InitDays ==
  /\ Init
  /\ watch_dir.is_dir
  /\ notes[FirstDay] \in {NoFile, [exists |-> TRUE, text |-> NoteFresh],
                          [exists |-> TRUE, text |-> NoteNoInbox]}

NextDays ==
  \/ Run(TRUE, MaxSeen)
  \/ tick

\* The step add_link as far as its fairness needs it: what enables it (the
\* guards of run_add_link) and where it leaves the program (line 173 returns,
\* line 189 starts the write, line 103 raises).
add_link_returns ==
  /\ pc = "add_link"
  /\ Len(hist) < MaxCalls
  /\ notes[daily_note].exists
  /\ pc' \in {"idle", "tmp_write", "raised"}

\* The step own_event likewise: the handler is free and the observer takes
\* an event of its queue (the paths of the daily directory lie below
\* watch_root, so on_moved passes all of them on).
own_event_delivered ==
  /\ pc = "idle"
  /\ started
  /\ \E e \in selfq : selfq' = selfq \ {e}

\* The observer delivers every event it has queued (its thread takes them
\* one by one), and no step of main or of a handler waits for anything.
\* add_link and own_event are the only steps that change pc from "add_link"
\* and that take an event out of selfq, so the two conditions on pc and on
\* selfq are weak fairness of these two actions.
Fairness ==
  /\ WF_selfq(own_event_delivered)
  /\ WF_vars(main)
  /\ WF_vars(ensure_daily_note)
  /\ WF_vars(create_note)
  /\ WF_pc(add_link_returns)
  /\ WF_vars(write_text)
  /\ WF_vars(tmp_write_text)
  /\ WF_vars(os_replace)

SpecDays == InitDays /\ [][NextDays]_vars /\ Fairness

\* The two conditions are those of the actions: a step that add_link_returns
\* or own_event_delivered describes is a step of add_link or of own_event,
\* and every queued event can be delivered.
FairnessIsOfActions ==
  /\ [][(add_link_returns /\ pc' # pc) => add_link]_vars
  /\ [][(own_event_delivered /\ selfq' # selfq) => \E e \in selfq : own_event(e, TRUE)]_vars
  /\ [](\A e \in selfq :
          e.kind = "moved" => is_relative_to(resolve(e.path), resolve(watch_root)))

\* The program on one day with a file system that starts to fail.
NextFaults ==
  \/ Run(TRUE, MaxSeen)
  \/ \E kind \in Faults : fail(kind)

SpecFaults == InitDays /\ [][NextFaults]_vars

(***************************************************************************)
(* Reading a note: its sections and link entries                           *)
(***************************************************************************)

\* The first index in [lo, hi) of a line that is the given heading, or -1.
SecHeading(lines, header, lo, hi) ==
  IF \E i \in lo..(hi - 1) : strip(At(lines, i)) = header
  THEN CHOOSE i \in lo..(hi - 1) :
         /\ strip(At(lines, i)) = header
         /\ \A k \in lo..(i - 1) : strip(At(lines, k)) # header
  ELSE -1

\* A line is a heading of level 1..level.
IsHeadingUpTo(line, level) ==
  \E n \in 1..level :
    /\ startswith(lstrip(line), [k \in 1..n |-> "#"])
    /\ ~startswith(lstrip(line), [k \in 1..(n + 1) |-> "#"])

\* end is where a content range that starts at lo inside [lo, hi) ends: at the
\* first heading of level <= level, or at hi.
IsRangeEnd(lines, lo, hi, level, end) ==
  /\ lo <= end
  /\ end <= hi
  /\ \A i \in lo..(end - 1) : ~IsHeadingUpTo(At(lines, i), level)
  /\ end < hi => IsHeadingUpTo(At(lines, end), level)

RangeEnd(lines, lo, hi, level) ==
  CHOOSE end \in lo..hi : IsRangeEnd(lines, lo, hi, level, end)

\* The number of leading '#' of a heading literal.
HashCount(header) ==
  Cardinality({n \in 1..Len(header) : \A k \in 1..n : header[k] = "#"})

\* The content range [lo, hi) of '## Inbox' (sub_header None) or of the
\* sub-section inside it, in the lines of a note; found is FALSE when the
\* note has no such section.
Section(lines, sub_header) ==
  LET ib == SecHeading(lines, INBOX_HEADER, 0, Len(lines))
      ie == RangeEnd(lines, ib + 1, Len(lines), 2)
      sb == SecHeading(lines, sub_header, ib + 1, ie)
  IN  IF ib = -1 THEN [found |-> FALSE, head |-> -1, lo |-> 0, hi |-> 0]
      ELSE IF sub_header = None THEN [found |-> TRUE, head |-> ib, lo |-> ib + 1, hi |-> ie]
      ELSE IF sb = -1 THEN [found |-> FALSE, head |-> -1, lo |-> 0, hi |-> 0]
      ELSE [found |-> TRUE, head |-> sb, lo |-> sb + 1,
            hi |-> RangeEnd(lines, sb + 1, ie, HashCount(sub_header))]

\* A link entry is a rendered bullet line '- [title](target)'; its target is
\* what stands between the last '](' and the closing ')'.
IsEntry(line) ==
  /\ startswith(line, <<"-", " ", "[">>)
  /\ line[Len(line)] = ")"
  /\ \E i \in 1..(Len(line) - 1) : line[i] = "]" /\ line[i + 1] = "("

EntryTarget(line) ==
  LET i == Max({k \in 1..(Len(line) - 1) : line[k] = "]" /\ line[k + 1] = "("})
  IN  SubSeq(line, i + 2, Len(line) - 1)

\* The normalized target of an entry of today's daily note.
Normalized(url) == _normalize_md_link_url(url, daily_dir)

\* The indices in [lo, hi) of the entries with the given normalized target.
EntriesOf(lines, lo, hi, target) ==
  {i \in lo..(hi - 1) :
     IsEntry(At(lines, i)) /\ Normalized(EntryTarget(At(lines, i))) = target}

\* Every call so far named the same sub_header.
SameSection == \A i \in 1..Len(hist) : hist[i].sub_header = hist[1].sub_header

LastCall == hist[Len(hist)]

(***************************************************************************)
(* Claims                                                                  *)
(***************************************************************************)

\* C1: starting from a note whose sections hold no two entries with the same
\* normalized target, after any sequence of add_link_under_inbox calls with
\* the same sub_header the chosen section holds at most one link entry per
\* normalized target.
C1_OneEntryPerTarget ==
  (pc = "idle" /\ hist # <<>> /\ SameSection) =>
    LET lines == splitlines(daily.text)
        sec   == Section(lines, hist[1].sub_header)
    IN  sec.found =>
          \A i, j \in sec.lo..(sec.hi - 1) :
            (i # j /\ IsEntry(At(lines, i)) /\ IsEntry(At(lines, j))) =>
              Normalized(EntryTarget(At(lines, i))) # Normalized(EntryTarget(At(lines, j)))

\* C2: a second add_link_under_inbox call with the (title, target, sub_header)
\* of the call before it leaves the file byte-identical to the file after the
\* first call.
C2_SecondCallChangesNothing ==
  (pc = "idle" /\ Len(hist) >= 2 /\ hist[Len(hist)] = hist[Len(hist) - 1]) =>
    (daily.exists /\ daily.text = loc.r.text)

C4_SpellingsGiveOneEntry ==
  (/\ pc = "idle"
   /\ Len(hist) >= 2
   /\ SameSection
   /\ hist[Len(hist)].link_url \in SameFile
   /\ hist[Len(hist) - 1].link_url \in SameFile
   /\ hist[Len(hist)].link_url # hist[Len(hist) - 1].link_url) =>
    LET lines == splitlines(daily.text)
        sec   == Section(lines, LastCall.sub_header)
    IN  /\ sec.found
        /\ Cardinality(EntriesOf(lines, sec.lo, sec.hi,
                                 Normalized(LastCall.link_url))) = 1

\* C5 as stated: at every step of every write to the daily note (insertion,
\* appending the Inbox heading, first creation) a reader of the note's path
\* sees the complete previous content (or absence) or the complete new content.
C5_EveryWriteAtomic ==
  [][daily' # daily => daily' = [exists |-> TRUE, text |-> pending']]_vars

\* C5 as amended: at every step of the writes that go through _atomic_write
\* (insertion, appending the Inbox heading) a reader of the note's path sees
\* the complete previous content or the complete new content.
C5_AtomicWriteAtomic ==
  [][(/\ daily' # daily
      /\ (writing \in {"append", "insert"} \/ writing' \in {"append", "insert"}))
       => daily' = [exists |-> TRUE, text |-> pending']]_vars

\* C5, witness: the new content is complete in the temporary file while the
\* note still holds the complete previous content.
C5_Witness ==
  /\ pc = "replace"
  /\ writing \in {"append", "insert"}
  /\ tmp = [exists |-> TRUE, text |-> pending]
  /\ daily.exists
  /\ daily.text # pending

\* C6: at the de-duplication scan,
\* inbox_start <= block_start <= block_end <= inbox_end <= len(lines).
C6_RangeContainment ==
  loc.called =>
    /\ 0 <= loc.r.inbox_start
    /\ loc.r.inbox_start <= loc.r.block_start
    /\ loc.r.block_start <= loc.r.block_end
    /\ loc.r.block_end <= loc.r.inbox_end
    /\ loc.r.inbox_end <= Len(loc.r.lines)

\* C6, witness: the ranges after the sub-section heading was inserted into a
\* note whose Inbox range is followed by further lines.
C6_Witness ==
  /\ loc.called
  /\ loc.r.sub_header # None
  /\ Len(loc.r.lines) > Len(splitlines(loc.r.text))
  /\ loc.r.inbox_end < Len(loc.r.lines)
  /\ loc.r.block_start < loc.r.block_end

\* C7: the Inbox content range starts after the '## Inbox' heading and ends
\* exactly at the first later line that is a heading of level <= 2, or at the
\* end of the document; the sub-section content range starts after its heading
\* and ends exactly at the first later line that is a heading of level <= its
\* own level, or at the end of the Inbox range.
C7_HeadingLevelBoundary ==
  loc.called =>
    /\ strip(At(loc.r.lines, loc.r.inbox_idx)) = INBOX_HEADER
    /\ loc.r.inbox_start = loc.r.inbox_idx + 1
    /\ IsRangeEnd(loc.r.lines, loc.r.inbox_start, Len(loc.r.lines), 2, loc.r.inbox_end)
    /\ IF loc.r.sub_header = None
       THEN loc.r.block_start = loc.r.inbox_start /\ loc.r.block_end = loc.r.inbox_end
       ELSE /\ strip(At(loc.r.lines, loc.r.sub_idx)) = loc.r.sub_header
            /\ loc.r.block_start = loc.r.sub_idx + 1
            /\ IsRangeEnd(loc.r.lines, loc.r.block_start, loc.r.inbox_end,
                          HashCount(loc.r.sub_header), loc.r.block_end)

\* C7, witness: a sub-section range that holds a deeper heading and is ended
\* by a heading of its own level, inside an Inbox range that a level-2
\* heading ends.
C7_Witness ==
  /\ loc.called
  /\ loc.r.sub_header # None
  /\ loc.r.block_end < loc.r.inbox_end
  /\ loc.r.inbox_end < Len(loc.r.lines)
  /\ \E i \in loc.r.block_start..(loc.r.block_end - 1) :
       /\ _header_level(At(loc.r.lines, i)) # NoLevel
       /\ ~IsHeadingUpTo(At(loc.r.lines, i), HashCount(loc.r.sub_header))

\* C8: on a document with zero lines, locating the missing '## Inbox' gives
\* exactly the heading line and one blank line after it, nothing before the
\* heading, and a content range of length zero right after the heading.
C8_EmptyDocumentSection ==
  (loc.called /\ loc.r.text = <<>> /\ loc.r.sub_header = None) =>
    /\ loc.r.lines = <<INBOX_HEADER, <<>>>>
    /\ loc.r.inbox_idx = 0
    /\ loc.r.inbox_end - loc.r.inbox_start = 0

\* C9: after every insertion that writes, the heading of the chosen section
\* is followed by a blank line and then by the new bullet.
C9_BlankThenBullet ==
  (pc = "idle" /\ loc.called /\ ~loc.r.present) =>
    LET lines == splitlines(daily.text)
        head  == loc.r.block_start - 1
    IN  /\ Len(lines) >= head + 3
        /\ strip(At(lines, head))
             = (IF loc.r.sub_header = None THEN INBOX_HEADER ELSE loc.r.sub_header)
        /\ strip(At(lines, head + 1)) = <<>>
        /\ At(lines, head + 2) = bullet(loc.r.title, loc.r.link_url)

\* The lines of a note that are the '### Saved Articles' heading.
SavedHeadings(text) ==
  LET lines == splitlines(text)
  IN  {i \in 0..(Len(lines) - 1) : strip(At(lines, i)) = SAVED_ARTICLES_HEADER}

\* C10: after the ingest of an accepted file whose root-relative path lies
\* under Inbox/RSS_Feed/, its bullet lies in the content range of a
\* '### Saved Articles' heading that lies in the '## Inbox' range, and the
\* '## Inbox' heading is present; the ingest of any other accepted file
\* creates no '### Saved Articles' heading.
C10_SubSectionRouting ==
  (pc = "idle" /\ loc.called /\ loc.src # <<>>) =>
    LET lines == splitlines(daily.text)
        inbox == Section(lines, None)
        saved == Section(lines, SAVED_ARTICLES_HEADER)
    IN  IF startswith(relative_to(loc.src, watch_root), <<"I","n","b","o","x","/","R","S","S","_","F","e","e","d","/">>)
        THEN /\ inbox.found
             /\ saved.found
             /\ inbox.lo <= saved.head
             /\ saved.hi <= inbox.hi
             /\ \E i \in saved.lo..(saved.hi - 1) :
                  At(lines, i) = bullet(extract_h1_title(read_file(loc.src)),
                                        sub_conform(relative_to(loc.src, watch_root)))
        ELSE Cardinality(SavedHeadings(daily.text))
               = Cardinality(SavedHeadings(loc.before.text))

\* C10, witness: a file under Inbox/RSS_Feed/ was ingested into a note that
\* had no '### Saved Articles' heading in its Inbox.
C10_Witness ==
  /\ pc = "idle"
  /\ loc.called
  /\ loc.src # <<>>
  /\ startswith(relative_to(loc.src, watch_root), <<"I","n","b","o","x","/","R","S","S","_","F","e","e","d","/">>)
  /\ ~loc.r.present
  /\ loc.before.exists
  /\ ~Section(splitlines(loc.before.text), SAVED_ARTICLES_HEADER).found

\* The name of a file without the editor's temp prefix '.conform.<digits>.'.
HasTempPrefix(name, k) ==
  /\ k > 10
  /\ k <= Len(name)
  /\ SubSeq(name, 1, 9) = <<".","c","o","n","f","o","r","m",".">>
  /\ \A i \in 10..(k - 1) : name[i] \in Digits
  /\ name[k] = "."

StripTemp(name) ==
  IF \E k \in 1..Len(name) : HasTempPrefix(name, k)
  THEN LET k == CHOOSE k \in 1..Len(name) : HasTempPrefix(name, k)
       IN  SubSeq(name, k + 1, Len(name))
  ELSE name

\* The final component of a path.
BaseName(path) ==
  LET slashes == {i \in 1..Len(path) : path[i] = "/"}
  IN  IF slashes = {} THEN path ELSE SubSeq(path, Max(slashes) + 1, Len(path))

\* A name is twelve digits and a Markdown extension.
IsTimestampName(name) ==
  \E ext \in MD_EXTS :
    /\ Len(name) = 12 + Len(ext)
    /\ \A i \in 1..12 : name[i] \in Digits
    /\ SubSeq(name, 13, Len(name)) = ext

\* The file of an event is a note of the date ymd (eight digits).
IsNoteOf(path, ymd) ==
  /\ IsTimestampName(StripTemp(BaseName(path)))
  /\ SubSeq(StripTemp(BaseName(path)), 1, 8) = ymd

\* C11: when the handler gets an event for a file whose name, without the temp
\* prefix, is not twelve digits and a Markdown extension, or whose first eight
\* digits are not the local date at that moment, the event is dropped: the
\* handler is done with it in that step, no call of add_link_under_inbox is
\* made or left to make, and no daily note and no temporary file changes.
C11_DateFilter ==
  [][(ev' # ev /\ ~IsNoteOf(ev'.path, ev'.ymd)) =>
       /\ ~ev'.accepted
       /\ pc' = "idle"
       /\ UNCHANGED <<notes, tmp, call, hist, loc, now>>]_vars

\* C11, witness: the boundary of the specification: an event for
\* 202501011230.md, a note with a title, on the day after the date in its
\* name, was dropped.
C11_Witness ==
  /\ pc = "idle"
  /\ started
  /\ ~ev.own
  /\ ev.ymd = <<"2","0","2","5","0","1","0","2">>
  /\ IsNoteOf(ev.path, <<"2","0","2","5","0","1","0","1">>)
  /\ ~ev.accepted
  /\ call = NoCall
  /\ hist = <<>>

\* The directory part of a path, with its final '/'.
DirName(path) == SubSeq(path, 1, Len(path) - Len(BaseName(path)))

\* The two calls made so far are for one file, seen first under its temp name
\* '.conform.<digits>.<name>' and then as '<name>': both events passed the
\* filters.
TempThenFinal ==
  /\ Len(hist) = 2
  /\ BaseName(hist[1].src) # StripTemp(BaseName(hist[1].src))
  /\ hist[2].src = DirName(hist[1].src) \o StripTemp(BaseName(hist[1].src))

\* The path of a watched file relative to the watch root '/w'.
RootRelative(path) == SubSeq(path, Len(watch_root) + 2, Len(path))

\* The indices of the lines of a note that are entries with the given target.
EntriesTo(lines, target) ==
  {i \in 0..(Len(lines) - 1) :
     IsEntry(At(lines, i)) /\ Normalized(EntryTarget(At(lines, i))) = Normalized(target)}

\* C12: when a file was seen first as '.conform.<digits>.<name>' and then as
\* '<name>' and both events passed the filters, the daily note holds exactly
\* one entry whose target is the path of '<name>' relative to the watch root.
C12_TempThenFinalOneEntry ==
  (pc = "idle" /\ TempThenFinal) =>
    Cardinality(EntriesTo(splitlines(daily.text), RootRelative(hist[2].src))) = 1

\* C12 for files whose heading has no ']': the same, and it holds.
C12_PlainTitleOneEntry ==
  (pc = "idle" /\ TempThenFinal /\ hist[1].title = PlainTitle) =>
    Cardinality(EntriesTo(splitlines(daily.text), RootRelative(hist[2].src))) = 1

C12_PlainTitleWitness ==
  /\ pc = "idle"
  /\ TempThenFinal
  /\ hist[1].title = PlainTitle
  /\ loc.r.present

\* C13: no failure while the handler works on an event leaves the handler:
\* with a source file, a daily note or a write that fails, the handler never
\* ends in an exception.
C13_NoFailureLeavesHandler == pc # "raised"

\* C13 for the source file: an event whose file cannot be read is dropped and
\* the handler is ready for the next event.
C13_UnreadableSourceDropped ==
  [][(ev' # ev /\ fault = "source_unreadable") =>
       /\ ~ev'.accepted
       /\ pc' = "idle"
       /\ UNCHANGED <<notes, tmp, hist>>]_vars

C13_UnreadableSourceWitness ==
  /\ fault = "source_unreadable"
  /\ IsNoteOf(ev.path, today_ymd)
  /\ ~ev.own
  /\ pc = "idle"

\* A step of ensure_daily_note: its tests, or one of the writes it started.
InEnsure ==
  \/ pc \in {"ensure", "create", "create_write"}
  \/ writing \in {"append", "create"}

\* C14: ensure_daily_note is idempotent. The call the handler makes for its
\* first event comes right after the call of main; when it is made on the day
\* of that call (daily_note is the date main's call read), then whatever
\* the note was before main (absent, with or without the Inbox heading), this
\* second call returns without a change on disk. And no step of any call
\* removes or alters what a note held: the text without its trailing
\* whitespace stays as the beginning of the note's text.
C14_EnsureIdempotent ==
  /\ [][(pc = "ensure" /\ call.active /\ hist = <<>> /\ daily_note = now /\ now' = now) =>
          (pc' = "add_link" /\ notes' = notes /\ tmp' = tmp)]_vars
  /\ [][\A d \in Days :
          (InEnsure /\ notes[d].exists) =>
            /\ notes'[d].exists
            /\ startswith(notes'[d].text, rstrip(notes[d].text))]_vars

\* C14, witness: main found the note without the Inbox heading and appended
\* it; the handler's call has returned and the note is as main left it.
C14_Witness ==
  /\ pc = "add_link"
  /\ hist = <<>>
  /\ \E text \in InitialTexts :
       /\ ~contains(text, INBOX_HEADER)
       /\ rstrip(text) # <<>>
       /\ daily.text = with_inbox(text)

\* C15: when the watched root is missing or is not a directory, the only
\* step the process takes is its end with a non-zero exit status: no daily
\* note and no temporary file is created or changed, the startup
\* ensure_daily_note is not entered and no event reaches the handler.
C15_FatalStartup ==
  [][(~watch_dir.exists \/ ~watch_dir.is_dir) =>
       /\ pc = "idle"
       /\ pc' = "exited"
       /\ exit_code' # 0
       /\ ~started'
       /\ UNCHANGED <<notes, tmp, call, hist, selfq>>]_vars

\* C15, witness: the root exists and is a file; the process has ended with
\* exit status 1.
C15_Witness ==
  /\ watch_dir.exists
  /\ ~watch_dir.is_dir
  /\ pc = "exited"
  /\ exit_code = 1
  /\ ~started

\* The note has a '### Saved Articles' line outside the content range of its
\* '## Inbox' heading.
StraySaved(text) ==
  LET lines == splitlines(text)
      inbox == Section(lines, None)
  IN  /\ inbox.found
      /\ \E i \in SavedHeadings(text) : i < inbox.lo \/ i >= inbox.hi

\* C16: a call with sub_header '### Saved Articles' on a note that has such a
\* line outside the '## Inbox' content range does not use that line: the
\* sub-section the call works on starts at a heading inside the Inbox range,
\* which is a new heading when the range held none; the bullet lies in that
\* sub-section, and the lines before the '## Inbox' heading and from the end
\* of the Inbox range on are the lines they were.
C16_LookupConfinedToInbox ==
  (pc = "idle" /\ loc.called /\ LastCall.sub_header = SAVED_ARTICLES_HEADER /\ StraySaved(loc.before.text)) =>
    LET old == splitlines(loc.before.text)
        new == splitlines(daily.text)
        oldInbox == Section(old, None)
        inbox == Section(new, None)
        saved == Section(new, SAVED_ARTICLES_HEADER)
    IN  /\ loc.r.inbox_start <= loc.r.sub_idx
        /\ loc.r.sub_idx < loc.r.inbox_end
        /\ IF loc.r.present
           THEN daily.text = loc.before.text
           ELSE /\ inbox.found
                /\ saved.found
                /\ inbox.lo <= saved.head
                /\ saved.hi <= inbox.hi
                /\ \E i \in saved.lo..(saved.hi - 1) :
                     At(new, i) = bullet(LastCall.title, LastCall.link_url)
                /\ SubSeq(new, 1, inbox.head) = SubSeq(old, 1, oldInbox.head)
                /\ SubSeq(new, inbox.hi + 1, Len(new)) = SubSeq(old, oldInbox.hi + 1, Len(old))
                /\ Cardinality(SavedHeadings(daily.text))
                     = Cardinality(SavedHeadings(loc.before.text))
                         + (IF Section(old, SAVED_ARTICLES_HEADER).found THEN 0 ELSE 1)

\* C16, witness: the note had '### Saved Articles' before the Inbox heading
\* and after the level-1 heading that ends the Inbox range and none inside,
\* and the call has written its bullet.
C16_Witness ==
  /\ pc = "idle"
  /\ loc.called
  /\ LastCall.sub_header = SAVED_ARTICLES_HEADER
  /\ ~loc.r.present
  /\ loc.before.text = NoteStray
  /\ ~Section(splitlines(loc.before.text), SAVED_ARTICLES_HEADER).found

\* C17: when a call with sub_header '### Saved Articles' finds no such heading
\* in the Inbox range, creates it and writes the note, the entries the Inbox
\* range held stay outside the new sub-section: its content range holds the
\* new bullet and no other entry.
C17_NewSubSectionHoldsOnlyBullet ==
  (/\ pc = "idle"
   /\ loc.called
   /\ ~loc.r.present
   /\ LastCall.sub_header = SAVED_ARTICLES_HEADER
   /\ ~Section(splitlines(loc.before.text), SAVED_ARTICLES_HEADER).found) =>
    LET new == splitlines(daily.text)
        saved == Section(new, SAVED_ARTICLES_HEADER)
    IN  /\ saved.found
        /\ \A i \in saved.lo..(saved.hi - 1) :
             IsEntry(At(new, i)) => At(new, i) = bullet(LastCall.title, LastCall.link_url)
        /\ Cardinality({i \in saved.lo..(saved.hi - 1) : IsEntry(At(new, i))}) = 1

\* The lines of a text that are not blank.
NonBlank(text) == SelectSeq(splitlines(text), LAMBDA line : strip(line) # <<>>)

\* new is old with lines of the set added inserted, and nothing else: every
\* line of old is in new, in the same order and with the same text. With
\* trimmed, the last line of new may be a line of old without its trailing
\* whitespace.
RECURSIVE OnlyAdds(_, _, _, _)
OnlyAdds(old, new, added, trimmed) ==
  IF new = <<>> THEN old = <<>>
  ELSE \/ /\ old # <<>>
          /\ \/ Head(new) = Head(old)
             \/ trimmed /\ Len(new) = 1 /\ Head(new) = rstrip(Head(old))
          /\ OnlyAdds(Tail(old), Tail(new), added, trimmed)
       \/ /\ Head(new) \in added
          /\ OnlyAdds(old, Tail(new), added, trimmed)

\* The lines the last call may add: its bullet, '## Inbox' and its sub_header.
AddedLines == {bullet(LastCall.title, LastCall.link_url), INBOX_HEADER, LastCall.sub_header}

\* C18 as stated: after a call of add_link_under_inbox, the non-blank lines of
\* the note before the call are, in the same order and with unchanged text,
\* among the lines of the note, and every other non-blank line is the bullet
\* or a section heading the call created.
C18_InsertionOnlyAddsLines ==
  (pc = "idle" /\ loc.called) =>
    OnlyAdds(NonBlank(loc.before.text), NonBlank(daily.text), AddedLines, FALSE)

\* C18: after a call of add_link_under_inbox, the non-blank lines of the note
\* before the call are, in the same order, among the lines of the note, with
\* unchanged text except that the last line of the note has lost its trailing
\* whitespace; every other non-blank line is the bullet or a section heading
\* the call created.
C18_InsertionAddsLinesAndTrims ==
  (pc = "idle" /\ loc.called) =>
    OnlyAdds(NonBlank(loc.before.text), NonBlank(daily.text), AddedLines, TRUE)

\* C18, witness: the bullet was written in front of a last line that ended in
\* whitespace, after a heading that ended in whitespace and kept it.
C18_Witness ==
  /\ pc = "idle"
  /\ loc.called
  /\ ~loc.r.present
  /\ loc.before.text = NoteTrailing
  /\ NonBlank(daily.text)[1] = NonBlank(NoteTrailing)[1]
  /\ NonBlank(daily.text)[Len(NonBlank(daily.text))] = <<"#","#"," ","L","a","t","e","r">>

\* The date of a daily note's file name, as the eight digits of a note name.
StampDigits(stamp) == SubSeq(stamp, 1, 4) \o SubSeq(stamp, 6, 7) \o SubSeq(stamp, 9, 10)

\* The link of the last call went into the daily note of the date in the
\* linked file's name.
LinkInNoteOfItsDate ==
  (loc.called /\ loc.src # <<>>) =>
    StampDigits(loc.note) = SubSeq(StripTemp(BaseName(loc.src)), 1, 8)

\* A daily note that begins with a level-1 heading, as a created note does,
\* has the date of its file name in it.
HeadingIsFileDate ==
  \A d \in Days :
    (notes[d].exists /\ startswith(notes[d].text, <<"#", " ">>)) =>
      startswith(notes[d].text, <<"#", " ">> \o d \o <<"\n">>)

\* C19: with the date changing at any point of the handling of an event, a
\* link is inserted only into the daily note whose date is the date in the
\* linked file's name, and a daily note the program creates has the date of
\* its file name as its level-1 heading.
C19_DateConsistency ==
  /\ LinkInNoteOfItsDate
  /\ HeadingIsFileDate

\* The files the program writes: the daily notes and their temporary files.
OwnPaths == {note_path(d) : d \in Days} \cup {tmp_path(note_path(d)) : d \in Days}

\* No call of add_link_under_inbox was made for a file the program writes,
\* and no entry of a daily note has such a file as its target.
NoLinkToOwnFile ==
  /\ \A i \in 1..Len(hist) : hist[i].src \notin OwnPaths
  /\ \A d \in Days :
       notes[d].exists =>
         \A i \in 1..Len(splitlines(notes[d].text)) :
           LET line == splitlines(notes[d].text)[i]
           IN  IsEntry(line) =>
                 \A path \in OwnPaths :
                   /\ EntryTarget(line) # RootRelative(path)
                   /\ Normalized(EntryTarget(line)) # path

\* C20: with the daily notes inside the watched root, with and without
\* --include-daily-dir, every event of a write of the program (the temporary
\* file created, the rename over the daily note, the daily note created) is
\* rejected by the filters, also when the date has changed before it is
\* delivered; no daily note gets a link to a daily note or a temporary file;
\* and once the external events have ended, the events of the program's own
\* writes are used up and the handler stays idle: it writes no more.
C20_NoSelfTriggering ==
  /\ [](ev.own => ~ev.accepted)
  /\ []NoLinkToOwnFile
  /\ <>[](selfq = {} /\ pc = "idle")

\* C20, witness: with --include-daily-dir, the event of the rename over the
\* note of 2025-01-01 was delivered on the next day, when that note is no
\* longer today's, and was rejected; nothing is left to deliver.
C20_Witness ==
  /\ ~skip_daily_dir
  /\ ev.own
  /\ ev.path = note_path(FirstDay)
  /\ now = NextDay
  /\ extract_h1_title(notes[FirstDay].text) # None
  /\ ~ev.accepted
  /\ hist # <<>>
  /\ selfq = {}
  /\ pc = "idle"

====
